---------------------------- MODULE Spec2Model ----------------------------
(***************************************************************************)
(* A model of kickdata's data layer (src/utils.py) and of the performance  *)
(* score of its dashboard (src/app.py).                                    *)
(*                                                                         *)
(* Python strings are sequences of characters; a character is a one-name   *)
(* TLA+ string ("a", " ", "U+00E6" for the letter ae).  Python dicts are   *)
(* functions whose DOMAIN is the set of keys that are present.  The        *)
(* external API is the environment: each requests.get is one step that     *)
(* receives a response drawn from a bounded set.                           *)
(***************************************************************************)
EXTENDS Integers, Sequences, FiniteSets, TLC

VARIABLES
    pc,                \* position of the running call
    entry,             \* which function was called from outside
    player_full_name,  \* the name argument of the outer call
    league_name,       \* the league argument of the outer call
    first_name,        \* get_player_stats: local first_name
    last_name,         \* get_player_stats: local last_name
    pass,              \* get_player_stats: 1 = first resolver call, 2 = second
    player_name,       \* get_player_stats_from_api: its player_name argument
    search_name,       \* get_player_stats_from_api: local search_name
    iterations,        \* loop iterations of the current resolver call
    fetches,           \* every player search issued so far, in order
    player_data,       \* the candidate the resolver returned
    result,            \* what the outer call returned (or raised)
    stats_dict,        \* calculate_performance: its stats_dict argument
    performance,       \* app.py: local performance
    color,             \* app.py: local color
    paged,             \* whether the API splits a player search into pages
    club_id,           \* get_team_stats: local club_id
    club_data,         \* get_team_stats: local club_data
    teams,             \* get_league_performance: response_data['response']
    team_index,        \* get_league_performance: position in the for loop
    team_stats,        \* get_league_performance: local team_stats
    status_code,       \* get_club_id: response.status_code
    results,           \* get_club_id: response_json['results']
    requests,          \* the URLs of the requests.get calls made so far
    club_pages,        \* the API's pages of players of one club
    page,              \* get_players_from_api: argument page of the innermost call
    frames             \* get_players_from_api: `players` of each call in progress

vars == <<pc, entry, player_full_name, league_name, first_name, last_name, pass,
          player_name, search_name, iterations, fetches, player_data, result,
          stats_dict, performance, color, paged, club_id, club_data, teams,
          team_index, team_stats, status_code, results, requests, club_pages,
          page, frames>>

resolverVars == <<entry, player_full_name, league_name, first_name, last_name,
                  pass, player_name, search_name, iterations, fetches, player_data,
                  paged>>

perfVars == <<stats_dict, performance, color>>

teamVars == <<club_id, club_data, teams, team_index, team_stats, status_code,
              results>>

pagingVars == <<club_pages, page, frames>>

\* The arguments and locals of the player lookup, the entry point apart.
searchVars == <<player_full_name, league_name, first_name, last_name, pass,
                player_name, search_name, iterations, fetches, player_data, paged>>

-----------------------------------------------------------------------------
(* Bounds of the model.                                                    *)

MaxQueryLen == 3

MaxPoolLen == 2

MaxDefects == 2

MaxTally == 3

\* Longest lineups list in the club data.
MaxLineups == 3

\* Most defects (null values, absent keys) in one club's data.
MaxTeamDefects == 1

\* Most teams the API lists for a league.
MaxTeams == 2

\* Most pages the API splits a club's players into.
MaxPages == 3

\* Most players on one page.
MaxPageLen == 2

-----------------------------------------------------------------------------
(* Strings.                                                                *)

\* The characters a user can type: two letters, the space, and one
\* non-ASCII letter (U+00E6, the ligature ae).
Chars == {"a", "e", " ", "U+00E6"}

RECURSIVE SeqsUpTo(_, _)
SeqsUpTo(S, n) ==
    IF n = 0 THEN {<<>>}
    ELSE LET shorter == SeqsUpTo(S, n - 1)
         IN  shorter \cup {Append(s, c) : s \in shorter, c \in S}

Queries == SeqsUpTo(Chars, MaxQueryLen)

\* A few short names, for the specifications that vary something else.
ShortQueries == SeqsUpTo({"a", " "}, 2)

\* The display names the API can report for a player.
CandidateNames == {<<"a">>, <<"e">>, <<"a", "e">>, <<"U+00E6">>}

\* unidecode of one character: ASCII is kept, U+00E6 becomes the two
\* letters "ae".
unidecode_char(c) == IF c = "U+00E6" THEN <<"a", "e">> ELSE <<c>>

RECURSIVE unidecode(_)
unidecode(s) ==
    IF s = <<>> THEN <<>> ELSE unidecode_char(Head(s)) \o unidecode(Tail(s))

Min2(a, b) == IF a <= b THEN a ELSE b

\* Levenshtein.distance: unit-cost insertions, deletions and substitutions.
RECURSIVE distance(_, _)
distance(s, t) ==
    IF s = <<>> THEN Len(t)
    ELSE IF t = <<>> THEN Len(s)
    ELSE IF Head(s) = Head(t) THEN distance(Tail(s), Tail(t))
    ELSE 1 + Min2(distance(Tail(s), Tail(t)),
                  Min2(distance(Tail(s), t), distance(s, Tail(t))))

\* str.split(" "): cut at every single space; empty pieces are kept.
RECURSIVE split(_)
split(s) ==
    IF \A i \in 1..Len(s) : s[i] # " " THEN <<s>>
    ELSE LET i == CHOOSE k \in 1..Len(s) :
                      s[k] = " " /\ \A j \in 1..(k - 1) : s[j] # " "
         IN  <<SubSeq(s, 1, i - 1)>> \o split(SubSeq(s, i + 1, Len(s)))

\* A join that puts nothing between the parts.
RECURSIVE join_no_separator(_)
join_no_separator(parts) ==
    IF parts = <<>> THEN <<>> ELSE parts[1] \o join_no_separator(Tail(parts))

\* " ".join(parts)
RECURSIVE join(_)
join(parts) ==
    IF parts = <<>> THEN <<>>
    ELSE IF Len(parts) = 1 THEN parts[1]
    ELSE parts[1] \o <<" ">> \o join(Tail(parts))

-----------------------------------------------------------------------------
(* Python values of the API's JSON leaves: an int or None.                 *)

PyInt(n) == [type |-> "int", val |-> n]

\* A str leaf of the decoded JSON.
PyStr(s) == [type |-> "str", val |-> s]

PyNone == [type |-> "NoneType", val |-> 0]

\* dict.get(k, None)
DictGet(d, k) == IF k \in DOMAIN d THEN d[k] ELSE PyNone

\* `v if v is not None else 0`
OrZero(v) == IF v # PyNone THEN v ELSE PyInt(0)

-----------------------------------------------------------------------------
(* The league table.                                                       *)

\* A league table with the Brazilian league missing and one id used twice.
LEAGUE_IDS_nine ==
    [n \in {"Premier League", "Bundesliga", "La Liga (Spain)", "Serie A",
            "Ligue 1", "Eredivisie", "Primeira Liga", "Liga MX",
            "Premier League (Russia)"} |->
        CASE n = "Premier League" -> 39
          [] n = "Bundesliga" -> 78
          [] n = "La Liga (Spain)" -> 140
          [] n = "Serie A" -> 135
          [] n = "Ligue 1" -> 61
          [] n = "Eredivisie" -> 88
          [] n = "Primeira Liga" -> 94
          [] n = "Liga MX" -> 262
          [] n = "Premier League (Russia)" -> 39]

LEAGUE_IDS ==
    [n \in {"Premier League", "Bundesliga", "La Liga (Spain)", "Serie A",
            "Ligue 1", "Eredivisie", "Serie A (Brazil)", "Primeira Liga",
            "Liga MX", "Premier League (Russia)"} |->
        CASE n = "Premier League" -> 39
          [] n = "Bundesliga" -> 78
          [] n = "La Liga (Spain)" -> 140
          [] n = "Serie A" -> 135
          [] n = "Ligue 1" -> 61
          [] n = "Eredivisie" -> 88
          [] n = "Serie A (Brazil)" -> 71
          [] n = "Primeira Liga" -> 94
          [] n = "Liga MX" -> 262
          [] n = "Premier League (Russia)" -> 235]

\* A league check that lets every name through.
league_is_valid_lenient(name) == name = name

\* `league_id = LEAGUE_IDS.get(league_name)` followed by `if not league_id`:
\* a name passes when it is a key and its id is not 0.
league_is_valid(name) == name \in DOMAIN LEAGUE_IDS /\ LEAGUE_IDS[name] # 0

\* The league names the model calls the functions with.
LeagueInputs == {"Premier League", "Championship"}

\* The ten names of the source's table, and names that are not in it.
AllLeagueInputs ==
    {"Premier League", "Bundesliga", "La Liga (Spain)", "Serie A", "Ligue 1",
     "Eredivisie", "Serie A (Brazil)", "Primeira Liga", "Liga MX",
     "Premier League (Russia)", "", "Championship", "premier league"}

-----------------------------------------------------------------------------
(* Candidates: the records of the API's /players response.                 *)

\* One complete `statistics[0]` entry, every leaf an int of its own.
BaseStatistics ==
    [team     |-> [id |-> PyInt(50), logo |-> PyInt(51)],
     goals    |-> [total |-> PyInt(1), assists |-> PyInt(2)],
     shots    |-> [total |-> PyInt(3), on |-> PyInt(4)],
     dribbles |-> [attempts |-> PyInt(5), success |-> PyInt(6)],
     passes   |-> [key |-> PyInt(7), accuracy |-> PyInt(8)],
     duels    |-> [won |-> PyInt(9)],
     tackles  |-> [total |-> PyInt(10), interceptions |-> PyInt(11),
                   blocks |-> PyInt(12)],
     fouls    |-> [drawn |-> PyInt(13), committed |-> PyInt(14)]]

Candidate(id, name) ==
    [player     |-> [id |-> id, name |-> PyStr(name), photo |-> PyInt(60),
                     nationality |-> PyInt(61)],
     statistics |-> <<BaseStatistics>>]

\* The `response` list built from the display names the API reports, in the
\* API's order; the player ids are distinct.
Pool(ns) == [i \in 1..Len(ns) |-> Candidate(i, ns[i])]

PoolNames == SeqsUpTo(CandidateNames, MaxPoolLen)

\* The candidates the API holds on the pages after the first, which a
\* request without a `page` parameter does not return: none when the API
\* answers in one page, else at most one further candidate.
LaterPages(is_paged) ==
    IF is_paged
    THEN {<<>>} \cup {<<Candidate(MaxPoolLen + 1, n)>> : n \in CandidateNames}
    ELSE {<<>>}

-----------------------------------------------------------------------------
(* get_player_stats_from_api: the choice of the best match.                *)

\* A key that compares with the name as the API spells it.
match_key_raw(search, player) == distance(search, player.player.name.val)

\* The key of `min`: distance(search_name, unidecode(player['player']['name'])).
match_key(search, player) ==
    distance(search, unidecode(player.player.name.val))

\* The exceptions the key raises on a candidate, none when it returns: the
\* two subscripts raise KeyError; unidecode(None) raises AttributeError
\* (None has no `encode`) or TypeError (None is not iterable), by the
\* version of the library.
key_raises(player) ==
    IF "player" \notin DOMAIN player
    THEN {[kind |-> "KeyError", value |-> "player"]}
    ELSE IF "name" \notin DOMAIN player.player
    THEN {[kind |-> "KeyError", value |-> "name"]}
    ELSE IF player.player.name.type = "NoneType"
    THEN {[kind |-> "AttributeError", value |-> "unidecode(None)"],
          [kind |-> "TypeError", value |-> "unidecode(None)"]}
    ELSE {}

\* What `min` raises: the key is evaluated on the candidates in order, so
\* the first candidate it fails on decides.
min_raises(players_data) ==
    IF \A i \in 1..Len(players_data) : key_raises(players_data[i]) = {}
    THEN {}
    ELSE key_raises(players_data[
             CHOOSE i \in 1..Len(players_data) :
                 /\ key_raises(players_data[i]) # {}
                 /\ \A j \in 1..(i - 1) : key_raises(players_data[j]) = {}])

\* A scan that lets a later element of equal key replace the kept one.
RECURSIVE min_scan_last_wins(_, _, _, _)
min_scan_last_wins(players_data, search, best, i) ==
    IF i > Len(players_data) THEN best
    ELSE min_scan_last_wins(players_data, search,
                            IF match_key(search, players_data[i])
                                  <= match_key(search, players_data[best])
                            THEN i ELSE best,
                            i + 1)

\* min(players_data, key=...): the scan keeps the first element and replaces
\* it only by a strictly smaller one, so the first minimum wins.
RECURSIVE min_scan(_, _, _, _)
min_scan(players_data, search, best, i) ==
    IF i > Len(players_data) THEN best
    ELSE min_scan(players_data, search,
                  IF match_key(search, players_data[i])
                        < match_key(search, players_data[best])
                  THEN i ELSE best,
                  i + 1)

best_match(players_data, search) ==
    players_data[min_scan(players_data, search, 1, 2)]

\* A trimming that drops the last character instead of the first.
trim_last(search) == SubSeq(search, 1, Len(search) - 1)

\* `search_name = search_name[1:]`: the first character is dropped.
trim(search) == Tail(search)

\* A first search string without the surname.
first_search_first_only(first, last) == first

\* The name get_player_stats passes to the resolver first ...
first_search(first, last) == first \o <<" ">> \o last

\* A second call that repeats the full name.
second_search_full(first, last) == first \o <<" ">> \o last

\* ... and the name it passes when the first call returned None.
second_search(first, last) == last

-----------------------------------------------------------------------------
(* get_player_stats: the normalisation of the chosen candidate.            *)

\* A "Stats" mapping that lost its "Blocks" entry.
StatNamesWithoutBlocks ==
    {"Goals", "Assists", "Total Shots", "Shots on Target", "Dribble Attempts",
     "Dribble Successes", "Key Passes", "Pass Success Rate", "Duels Won",
     "Total Tackles", "Interceptions", "Fouls Drawn", "Fouls Committed"}

\* The keys of the returned "Stats" mapping.
StatNames ==
    {"Goals", "Assists", "Total Shots", "Shots on Target", "Dribble Attempts",
     "Dribble Successes", "Key Passes", "Pass Success Rate", "Duels Won",
     "Total Tackles", "Interceptions", "Blocks", "Fouls Drawn",
     "Fouls Committed"}

\* The keys of the returned "Player" mapping.
PlayerKeys == {"Name", "Photo", "Team Logo", "Nationality", "Team"}

\* The nested path each statistic is read from.
StatPath(n) ==
    CASE n = "Goals"             -> <<"goals", "total">>
      [] n = "Assists"           -> <<"goals", "assists">>
      [] n = "Total Shots"       -> <<"shots", "total">>
      [] n = "Shots on Target"   -> <<"shots", "on">>
      [] n = "Dribble Attempts"  -> <<"dribbles", "attempts">>
      [] n = "Dribble Successes" -> <<"dribbles", "success">>
      [] n = "Key Passes"        -> <<"passes", "key">>
      [] n = "Pass Success Rate" -> <<"passes", "accuracy">>
      [] n = "Duels Won"         -> <<"duels", "won">>
      [] n = "Total Tackles"     -> <<"tackles", "total">>
      [] n = "Interceptions"     -> <<"tackles", "interceptions">>
      [] n = "Blocks"            -> <<"tackles", "blocks">>
      [] n = "Fouls Drawn"       -> <<"fouls", "drawn">>
      [] n = "Fouls Committed"   -> <<"fouls", "committed">>

\* A reading that uses `.get` for shots.total as well.
OptionalStatsWithShots ==
    {"Total Shots", "Pass Success Rate", "Duels Won", "Total Tackles"}

\* A reading that uses `.get` for tackles.blocks as well.
OptionalStatsWithBlocks ==
    {"Pass Success Rate", "Duels Won", "Total Tackles", "Blocks"}

\* The statistics read with `.get(key, None)`: an absent key reads as None.
OptionalStats == {"Pass Success Rate", "Duels Won", "Total Tackles"}

\* A defaulting that leaves the two fouls statistics out.
DefaultedStatsWithoutFouls ==
    {"Assists", "Pass Success Rate", "Duels Won", "Total Tackles",
     "Interceptions", "Blocks"}

\* The statistics that carry `... if ... is not None else 0`.
DefaultedStats ==
    {"Assists", "Pass Success Rate", "Duels Won", "Total Tackles",
     "Interceptions", "Blocks", "Fouls Drawn", "Fouls Committed"}

\* The subscripts in the order the function evaluates them: the fourteen
\* assignments, then the values of the "Player" mapping.
ReadOrder ==
    << <<"goals", "total">>, <<"goals", "assists">>, <<"shots", "total">>,
       <<"shots", "on">>, <<"dribbles", "attempts">>, <<"dribbles", "success">>,
       <<"passes", "key">>, <<"passes", "accuracy">>, <<"duels", "won">>,
       <<"tackles", "total">>, <<"tackles", "interceptions">>,
       <<"tackles", "blocks">>, <<"fouls", "drawn">>, <<"fouls", "committed">>,
       <<"player", "name">>, <<"player", "photo">>, <<"team", "logo">>,
       <<"player", "nationality">>, <<"team", "id">> >>

OptionalPaths == {StatPath(n) : n \in OptionalStats}

\* The dict a path's first component names: `player` or a group of `stats`.
GroupPresent(candidate, g) ==
    IF g = "player" THEN "player" \in DOMAIN candidate
    ELSE g \in DOMAIN candidate.statistics[1]

GroupOf(candidate, g) ==
    IF g = "player" THEN candidate.player ELSE candidate.statistics[1][g]

\* Whether evaluating the subscript raises KeyError.
ReadFails(candidate, path) ==
    \/ ~GroupPresent(candidate, path[1])
    \/ /\ path \notin OptionalPaths
       /\ path[2] \notin DOMAIN GroupOf(candidate, path[1])

\* The key of the KeyError the function raises, "" when it raises none.
\* `player = player_data['player']` comes before every other subscript.
missing_key(candidate) ==
    IF "player" \notin DOMAIN candidate THEN "player"
    ELSE IF \A i \in 1..Len(ReadOrder) : ~ReadFails(candidate, ReadOrder[i])
    THEN ""
    ELSE LET i == CHOOSE k \in 1..Len(ReadOrder) :
                      /\ ReadFails(candidate, ReadOrder[k])
                      /\ \A j \in 1..(k - 1) : ~ReadFails(candidate, ReadOrder[j])
             path == ReadOrder[i]
         IN  IF GroupPresent(candidate, path[1]) THEN path[2] ELSE path[1]

\* The value of one statistic in the returned mapping.
stat_value(candidate, n) ==
    LET group == candidate.statistics[1][StatPath(n)[1]]
        key   == StatPath(n)[2]
        read  == IF n \in OptionalStats THEN DictGet(group, key) ELSE group[key]
    IN  IF n \in DefaultedStats THEN OrZero(read) ELSE read

\* The mapping get_player_stats returns for a candidate it can read.
player_record(candidate) ==
    [Player |-> [k \in PlayerKeys |->
                    CASE k = "Name"        -> candidate.player.name
                      [] k = "Photo"       -> candidate.player.photo
                      [] k = "Team Logo"   -> candidate.statistics[1].team.logo
                      [] k = "Nationality" -> candidate.player.nationality
                      [] k = "Team"        -> candidate.statistics[1].team.id],
     Stats  |-> [n \in StatNames |-> stat_value(candidate, n)]]

\* Lines 179-224 as a whole: the record, or the KeyError that propagates.
normalize_player(candidate) ==
    IF missing_key(candidate) # ""
    THEN [kind |-> "KeyError", value |-> missing_key(candidate)]
    ELSE [kind |-> "record", value |-> player_record(candidate)]

-----------------------------------------------------------------------------
(* Candidates with defects: leaves that are null, keys that are absent.    *)

Groups == {"player", "team", "goals", "shots", "dribbles", "passes", "duels",
           "tackles", "fouls"}

Leaves == {ReadOrder[i] : i \in 1..Len(ReadOrder)}

\* What can be wrong with a candidate: a leaf null, a leaf's key absent, a
\* whole group absent.
DefectKinds ==
    {<<l, k>> : l \in Leaves, k \in {"null", "absent"}}
        \cup {<<<<g>>, "absent">> : g \in Groups}

RECURSIVE SubsetsUpTo(_, _)
SubsetsUpTo(S, n) ==
    IF n = 0 THEN {{}}
    ELSE LET smaller == SubsetsUpTo(S, n - 1)
         IN  smaller \cup {D \cup {x} : D \in smaller, x \in S}

DefectSets == SubsetsUpTo(DefectKinds, MaxDefects)

\* A group of the base candidate with the defects D applied.
DefectiveGroup(base, g, D) ==
    [k \in {k \in DOMAIN base : <<<<g, k>>, "absent">> \notin D} |->
        IF <<<<g, k>>, "null">> \in D THEN PyNone ELSE base[k]]

DefectiveCandidate(D) ==
    LET base  == Candidate(1, <<"a">>)
        stats == [g \in {g \in DOMAIN BaseStatistics : <<<<g>>, "absent">> \notin D} |->
                     DefectiveGroup(BaseStatistics[g], g, D)]
        top   == [player     |-> DefectiveGroup(base.player, "player", D),
                  statistics |-> <<stats>>]
    IN  [k \in {k \in DOMAIN top : <<<<k>>, "absent">> \notin D} |-> top[k]]

-----------------------------------------------------------------------------
(* get_team_stats: the club statistics and their normalisation.            *)

IsNone(v) == v.type = "NoneType"

\* The names of the team statistics with the club form left out.
TeamStatNamesWithoutForm ==
    <<"Total Games", "Total Wins Home", "Total Wins Away", "Total Wins",
      "Total Draws Home", "Total Draws Away", "Total Draws",
      "Total Losses Home", "Total Losses Away", "Total Losses",
      "Total Home Goals Scored", "Total Away Goals Scored", "Total Goals Scored",
      "Average Home Goals Scored", "Average Away Goals Scored",
      "Average Goals Scored", "Total Home Goals Conceded",
      "Total Away Goals Conceded", "Total Goals Conceded",
      "Average Home Goals Conceded", "Average Away Goals Conceded",
      "Average Goals Conceded", "Longest Win Streak", "Longest Draw Streak",
      "Longest Lose Streak", "Biggest Home Win", "Biggest Away Win",
      "Biggest Home Loss", "Biggest Away Loss", "Total Home Clean Sheets",
      "Total Away Clean Sheets", "Total Clean Sheets",
      "Times Failed to Score at Home", "Times Failed to Score Away",
      "Total Times Failed to Score">>

\* The names of the team statistics, in the order of the returned "Stats".
TeamStatNames ==
    <<"Total Games", "Total Wins Home", "Total Wins Away", "Total Wins",
      "Total Draws Home", "Total Draws Away", "Total Draws",
      "Total Losses Home", "Total Losses Away", "Total Losses", "Club Form",
      "Total Home Goals Scored", "Total Away Goals Scored", "Total Goals Scored",
      "Average Home Goals Scored", "Average Away Goals Scored",
      "Average Goals Scored", "Total Home Goals Conceded",
      "Total Away Goals Conceded", "Total Goals Conceded",
      "Average Home Goals Conceded", "Average Away Goals Conceded",
      "Average Goals Conceded", "Longest Win Streak", "Longest Draw Streak",
      "Longest Lose Streak", "Biggest Home Win", "Biggest Away Win",
      "Biggest Home Loss", "Biggest Away Loss", "Total Home Clean Sheets",
      "Total Away Clean Sheets", "Total Clean Sheets",
      "Times Failed to Score at Home", "Times Failed to Score Away",
      "Total Times Failed to Score">>

\* Where each team statistic is read from in the club data.
TeamStatPath(n) ==
    CASE n = "Total Games"                   -> <<"fixtures", "played", "total">>
      [] n = "Total Wins Home"               -> <<"fixtures", "wins", "home">>
      [] n = "Total Wins Away"               -> <<"fixtures", "wins", "away">>
      [] n = "Total Wins"                    -> <<"fixtures", "wins", "total">>
      [] n = "Total Draws Home"              -> <<"fixtures", "draws", "home">>
      [] n = "Total Draws Away"              -> <<"fixtures", "draws", "away">>
      [] n = "Total Draws"                   -> <<"fixtures", "draws", "total">>
      [] n = "Total Losses Home"             -> <<"fixtures", "loses", "home">>
      [] n = "Total Losses Away"             -> <<"fixtures", "loses", "away">>
      [] n = "Total Losses"                  -> <<"fixtures", "loses", "total">>
      [] n = "Club Form"                     -> <<"form">>
      [] n = "Total Home Goals Scored"       -> <<"goals", "for", "total", "home">>
      [] n = "Total Away Goals Scored"       -> <<"goals", "for", "total", "away">>
      [] n = "Total Goals Scored"            -> <<"goals", "for", "total", "total">>
      [] n = "Average Home Goals Scored"     -> <<"goals", "for", "average", "home">>
      [] n = "Average Away Goals Scored"     -> <<"goals", "for", "average", "away">>
      [] n = "Average Goals Scored"          -> <<"goals", "for", "average", "total">>
      [] n = "Total Home Goals Conceded"     -> <<"goals", "against", "total", "home">>
      [] n = "Total Away Goals Conceded"     -> <<"goals", "against", "total", "away">>
      [] n = "Total Goals Conceded"          -> <<"goals", "against", "total", "total">>
      [] n = "Average Home Goals Conceded"   -> <<"goals", "against", "average", "home">>
      [] n = "Average Away Goals Conceded"   -> <<"goals", "against", "average", "away">>
      [] n = "Average Goals Conceded"        -> <<"goals", "against", "average", "total">>
      [] n = "Longest Win Streak"            -> <<"biggest", "streak", "wins">>
      [] n = "Longest Draw Streak"           -> <<"biggest", "streak", "draws">>
      [] n = "Longest Lose Streak"           -> <<"biggest", "streak", "loses">>
      [] n = "Biggest Home Win"              -> <<"biggest", "wins", "home">>
      [] n = "Biggest Away Win"              -> <<"biggest", "wins", "away">>
      [] n = "Biggest Home Loss"             -> <<"biggest", "loses", "home">>
      [] n = "Biggest Away Loss"             -> <<"biggest", "loses", "away">>
      [] n = "Total Home Clean Sheets"       -> <<"clean_sheet", "home">>
      [] n = "Total Away Clean Sheets"       -> <<"clean_sheet", "away">>
      [] n = "Total Clean Sheets"            -> <<"clean_sheet", "total">>
      [] n = "Times Failed to Score at Home" -> <<"failed_to_score", "home">>
      [] n = "Times Failed to Score Away"    -> <<"failed_to_score", "away">>
      [] n = "Total Times Failed to Score"   -> <<"failed_to_score", "total">>

\* The subscripts of get_team_stats in the order they are evaluated: the
\* club, the statistics, the lineups list, then the club's name and logo.
TeamReadOrder ==
    <<<<"team">>>>
        \o [i \in 1..Len(TeamStatNames) |-> TeamStatPath(TeamStatNames[i])]
        \o <<<<"lineups">>, <<"team", "name">>, <<"team", "logo">>>>

IsPrefix(p, q) == Len(p) <= Len(q) /\ SubSeq(q, 1, Len(p)) = p

\* The value at the end of a chain of subscripts d[k1][k2]..., or the the chain raises, with the subscript that raised it: KeyError
\* at an absent key, TypeError at a subscript of None.
RECURSIVE Subscript(_, _)
Subscript(d, path) ==
    IF Len(path) = 0 THEN [kind |-> "value", value |-> d]
    ELSE IF "type" \in DOMAIN d THEN [kind |-> "TypeError", value |-> Head(path)]
    ELSE IF Head(path) \notin DOMAIN d THEN [kind |-> "KeyError", value |-> Head(path)]
    ELSE Subscript(d[Head(path)], Tail(path))

\* The first subscript chain, in evaluation order, that raises; 0 if none.
RECURSIVE first_failure(_, _)
first_failure(data, i) ==
    IF i > Len(TeamReadOrder) THEN 0
    ELSE IF Subscript(data, TeamReadOrder[i]).kind # "value" THEN i
    ELSE first_failure(data, i + 1)

\* lineup_info[formation_deployed] = times_deployed
lineup_put_sum(lineup_info, formation, played) ==
    [f \in DOMAIN lineup_info \cup {formation} |->
        IF f # formation THEN lineup_info[f]
        ELSE IF f \in DOMAIN lineup_info
             THEN PyInt(lineup_info[f].val + played.val)
             ELSE played]

lineup_put(lineup_info, formation, played) ==
    [f \in DOMAIN lineup_info \cup {formation} |->
        IF f = formation THEN played ELSE lineup_info[f]]

\* The loop over stats['lineups'], from index i on.
RECURSIVE lineup_loop(_, _, _)
lineup_loop(lineups, i, lineup_info) ==
    IF i > Len(lineups) THEN lineup_info
    ELSE lineup_loop(lineups, i + 1,
                     lineup_put(lineup_info, lineups[i].formation,
                                lineups[i].played))

\* A team statistic with None replaced by 0.
team_stat_value_or_zero(data, n) == OrZero(Subscript(data, TeamStatPath(n)).value)

\* The value of one team statistic: the local variable read from the club
\* data, as it is.
team_stat_value(data, n) == Subscript(data, TeamStatPath(n)).value

\* The "Stats" sub-mapping of the returned dict.
team_stats_keys(data) ==
    [n \in {TeamStatNames[i] : i \in 1..Len(TeamStatNames)} \cup {"Lineups"} |->
        IF n = "Lineups" THEN lineup_loop(data.lineups, 1, <<>>)
        ELSE team_stat_value(data, n)]

team_record(data) ==
    [Club  |-> [Name |-> data.team.name, Logo |-> data.team.logo],
     Stats |-> team_stats_keys(data)]

\* get_team_stats from the club data on: the `'team' not in club_data` test
\* (a TypeError on None), the reads in order, the lineups loop, the dict.
normalize_team(data) ==
    IF "type" \in DOMAIN data
    THEN [kind |-> "TypeError", value |-> "argument of type 'NoneType' is not iterable"]
    ELSE IF "team" \notin DOMAIN data
    THEN [kind |-> "message", value |-> "Unexpected API response format."]
    ELSE LET i == first_failure(data, 1)
         IN  IF i # 0
             THEN Subscript(data, TeamReadOrder[i])
             ELSE [kind |-> "record", value |-> team_record(data)]

-----------------------------------------------------------------------------
(* Club data with defects, and lineups lists.                              *)

Formations == {"4-3-3", "4-4-2"}

PlayedValues == {3, 5, 10}

LineupEntries ==
    {[formation |-> f, played |-> PyInt(n)] : f \in Formations, n \in PlayedValues}

LineupLists == SeqsUpTo(LineupEntries, MaxLineups)

DefaultLineups == <<[formation |-> "4-3-3", played |-> PyInt(10)]>>

\* The paths that end at a value get_team_stats copies.
ClubLeaves ==
    {TeamReadOrder[i] : i \in 1..Len(TeamReadOrder)} \ {<<"team">>, <<"lineups">>}

LeafIndex(path) == CHOOSE i \in 1..Len(TeamReadOrder) : TeamReadOrder[i] = path

ClubPrefixes ==
    UNION {{SubSeq(q, 1, n) : n \in 1..Len(q)} :
               q \in ClubLeaves \cup {<<"lineups">>}}

\* What can be wrong with the club data: a value null, a key absent.
TeamDefectKinds ==
    {<<p, k>> : p \in ClubPrefixes, k \in {"null", "absent"}}
        \ {<<<<"lineups">>, "null">>}

TeamDefectSets == SubsetsUpTo(TeamDefectKinds, MaxTeamDefects)

\* The club data below `prefix`, with the defects D applied.
RECURSIVE ClubNode(_, _, _)
ClubNode(prefix, D, lineups) ==
    IF <<prefix, "null">> \in D THEN PyNone
    ELSE IF prefix = <<"lineups">> THEN lineups
    ELSE IF prefix \in ClubLeaves THEN PyInt(LeafIndex(prefix))
    ELSE LET below == {q \in ClubLeaves \cup {<<"lineups">>} :
                          /\ IsPrefix(prefix, q)
                          /\ <<SubSeq(q, 1, Len(prefix) + 1), "absent">> \notin D}
         IN  [k \in {q[Len(prefix) + 1] : q \in below} |->
                 ClubNode(Append(prefix, k), D, lineups)]

ClubData(D, lineups) == ClubNode(<<>>, D, lineups)

\* What the statistics endpoint may answer for a club: nothing, the club
\* data with defects, or the club data with any lineups list.
ClubResponses ==
    {PyNone}
        \cup {ClubData(D, DefaultLineups) : D \in TeamDefectSets}
        \cup {ClubData({}, L) : L \in LineupLists}

-----------------------------------------------------------------------------
(* Results of a call.                                                      *)

NoResult == [kind |-> "pending", value |-> ""]

\* A returned message string (the f-strings, by their fixed part).
Message(text) == [kind |-> "message", value |-> text]

NoCandidate == [kind |-> "None", value |-> ""]

Found(candidate) == [kind |-> "candidate", value |-> candidate]

\* The locals of get_team_stats, get_league_performance and
\* get_players_from_api before any call.
TeamIdle ==
    /\ club_id = PyNone
    /\ club_data = PyNone
    /\ teams = <<>>
    /\ team_index = 0
    /\ team_stats = <<>>
    /\ status_code = 0
    /\ results = 0
    /\ club_pages = <<>>
    /\ page = 0
    /\ frames = <<>>

-----------------------------------------------------------------------------
(* The player lookup: get_player_stats and get_player_stats_from_api.      *)

Init ==
    /\ pc = "idle"
    /\ entry = ""
    /\ player_full_name \in Queries
    /\ league_name \in LeagueInputs
    /\ first_name = <<>>
    /\ last_name = <<>>
    /\ pass = 0
    /\ player_name = <<>>
    /\ search_name = <<>>
    /\ iterations = 0
    /\ fetches = <<>>
    /\ player_data = NoCandidate
    /\ result = NoResult
    /\ stats_dict = <<>>
    /\ performance = NoResult
    /\ color = ""
    /\ paged = FALSE
    /\ TeamIdle
    /\ requests = <<>>

\* get_player_stats up to its first call of the resolver: the league check,
\* the split of the name, and the resolver's own first line.
get_player_stats ==
    /\ pc = "idle"
    /\ entry' = "get_player_stats"
    /\ IF ~league_is_valid(league_name)
       THEN /\ pc' = "done"
            /\ result' = Message("Invalid league name")
            /\ UNCHANGED <<first_name, last_name, pass, player_name, search_name>>
       ELSE LET names == split(player_full_name)
                first == IF Len(names) = 1 THEN <<>>
                         ELSE join(SubSeq(names, 1, Len(names) - 1))
                last  == names[Len(names)]
            IN  /\ first_name' = first
                /\ last_name' = last
                /\ pass' = 1
                /\ player_name' = first_search(first, last)
                /\ search_name' = unidecode(first_search(first, last))
                /\ pc' = "loop"
                /\ UNCHANGED result
    /\ UNCHANGED <<player_full_name, league_name, iterations, fetches, player_data,
                   paged>>
    /\ UNCHANGED perfVars
    /\ UNCHANGED pagingVars
    /\ UNCHANGED <<teamVars, requests>>

\* get_player_stats_from_api called on its own, with a league id of the table.
get_player_stats_from_api ==
    /\ pc = "idle"
    /\ league_is_valid(league_name)
    /\ entry' = "get_player_stats_from_api"
    /\ player_name' = player_full_name
    /\ search_name' = unidecode(player_full_name)
    /\ pc' = "loop"
    /\ UNCHANGED <<player_full_name, league_name, first_name, last_name, pass,
                   iterations, fetches, player_data, result, paged>>
    /\ UNCHANGED perfVars
    /\ UNCHANGED pagingVars
    /\ UNCHANGED <<teamVars, requests>>

\* One iteration of `while len(search_name) > 0` for the answer
\* players_data (and the later pages the request does not ask for): the
\* request, then the best match is returned, or the key of `min` raises and
\* the exception leaves the resolver and its caller, or the first character
\* is dropped.
resolver_request(players_data, later) ==
    /\ fetches' = Append(fetches, [search |-> search_name,
                                   response |-> players_data,
                                   later |-> later])
    /\ iterations' = iterations + 1
    /\ requests' = Append(requests, "players")
    /\ IF Len(players_data) > 0
       THEN IF min_raises(players_data) # {}
            THEN /\ \E e \in min_raises(players_data) : result' = e
                 /\ pc' = "done"
                 /\ UNCHANGED <<player_data, search_name>>
            ELSE /\ player_data' = Found(best_match(players_data, search_name))
                 /\ search_name' = search_name
                 /\ IF entry = "get_player_stats_from_api"
                    THEN /\ pc' = "done"
                         /\ result' = Found(best_match(players_data, search_name))
                    ELSE /\ pc' = "found"
                         /\ result' = result
       ELSE /\ search_name' = trim(search_name)
            /\ pc' = "loop"
            /\ UNCHANGED <<player_data, result>>
    /\ UNCHANGED <<entry, player_full_name, league_name, first_name, last_name,
                   pass, player_name, paged>>
    /\ UNCHANGED perfVars
    /\ UNCHANGED pagingVars
    /\ UNCHANGED teamVars

\* The iteration when the API answers with complete candidates.
resolver_iteration ==
    /\ pc = "loop"
    /\ Len(search_name) > 0
    /\ \E ns \in PoolNames, later \in LaterPages(paged) :
          /\ (Len(ns) = 0) => (Len(later) = 0)
          /\ resolver_request(Pool(ns), later)

\* The iteration when the API answers with one candidate that has defects.
resolver_iteration_defects ==
    /\ pc = "loop"
    /\ Len(search_name) > 0
    /\ \E D \in DefectSets : resolver_request(<<DefectiveCandidate(D)>>, <<>>)

\* The loop ends with search_name empty: `return None`, and what the caller
\* does with it (the second call with last_name, or the "No stats" message).
resolver_returns_none ==
    /\ pc = "loop"
    /\ Len(search_name) = 0
    /\ IF entry = "get_player_stats_from_api"
       THEN /\ pc' = "done"
            /\ result' = NoCandidate
            /\ UNCHANGED <<pass, player_name, search_name, iterations>>
       ELSE IF pass = 1
       THEN /\ pass' = 2
            /\ player_name' = second_search(first_name, last_name)
            /\ search_name' = unidecode(second_search(first_name, last_name))
            /\ iterations' = 0
            /\ pc' = "loop"
            /\ UNCHANGED result
       ELSE /\ pc' = "done"
            /\ result' = Message("No stats found")
            /\ UNCHANGED <<pass, player_name, search_name, iterations>>
    /\ UNCHANGED <<entry, player_full_name, league_name, first_name, last_name,
                   fetches, player_data, paged>>
    /\ UNCHANGED perfVars
    /\ UNCHANGED pagingVars
    /\ UNCHANGED <<teamVars, requests>>

\* A normalisation that also stores each default it substitutes into the
\* candidate (`stats['goals']['assists'] = 0` and the like).
NormalizeStoresDefaults == DefaultedStats

\* The statistics whose leaf lines 179-224 assign to in the candidate: the
\* function subscripts player_data, player and stats only to read them, and
\* binds its values to locals and to the keys of a new dict.
NormalizeStores == {}

\* The candidate as the function leaves it: a leaf it assigns to holds the
\* default 0 where it held None.
candidate_after(candidate) ==
    LET stats == candidate.statistics[1]
    IN  [candidate EXCEPT !.statistics =
            <<[g \in DOMAIN stats |->
                 [k \in DOMAIN stats[g] |->
                     IF /\ \E n \in NormalizeStores : StatPath(n) = <<g, k>>
                        /\ IsNone(stats[g][k])
                     THEN PyInt(0)
                     ELSE stats[g][k]]]>>]

\* get_player_stats after the resolver returned a candidate.
get_player_stats_normalize ==
    /\ pc = "found"
    /\ result' = normalize_player(player_data.value)
    /\ player_data' = Found(candidate_after(player_data.value))
    /\ pc' = "done"
    /\ UNCHANGED <<entry, player_full_name, league_name, first_name, last_name,
                   pass, player_name, search_name, iterations, fetches, paged>>
    /\ UNCHANGED perfVars
    /\ UNCHANGED pagingVars
    /\ UNCHANGED <<teamVars, requests>>

\* Lines 179-224 run once more on the candidate the first run left behind.
get_player_stats_normalize_again ==
    /\ pc = "done"
    /\ entry = "get_player_stats"
    /\ player_data.kind = "candidate"
    /\ result' = normalize_player(player_data.value)
    /\ player_data' = Found(candidate_after(player_data.value))
    /\ pc' = "again"
    /\ UNCHANGED <<entry, player_full_name, league_name, first_name, last_name,
                   pass, player_name, search_name, iterations, fetches, paged>>
    /\ UNCHANGED perfVars
    /\ UNCHANGED pagingVars
    /\ UNCHANGED <<teamVars, requests>>

Next ==
    \/ get_player_stats
    \/ get_player_stats_from_api
    \/ resolver_iteration
    \/ resolver_returns_none
    \/ get_player_stats_normalize

Spec == Init /\ [][Next]_vars

-----------------------------------------------------------------------------
(* The player lookup against an API that answers a search in pages.        *)

InitPaged ==
    /\ pc = "idle"
    /\ entry = ""
    /\ player_full_name \in ShortQueries
    /\ league_name \in LeagueInputs
    /\ first_name = <<>>
    /\ last_name = <<>>
    /\ pass = 0
    /\ player_name = <<>>
    /\ search_name = <<>>
    /\ iterations = 0
    /\ fetches = <<>>
    /\ player_data = NoCandidate
    /\ result = NoResult
    /\ stats_dict = <<>>
    /\ performance = NoResult
    /\ color = ""
    /\ paged = TRUE
    /\ TeamIdle
    /\ requests = <<>>

SpecPaged == InitPaged /\ [][Next]_vars

-----------------------------------------------------------------------------
(* The player lookup for every league name of the table and a few others.  *)

InitLeagues ==
    /\ pc = "idle"
    /\ entry = ""
    /\ player_full_name \in {<<"a">>, <<"a", " ", "e">>}
    /\ league_name \in AllLeagueInputs
    /\ first_name = <<>>
    /\ last_name = <<>>
    /\ pass = 0
    /\ player_name = <<>>
    /\ search_name = <<>>
    /\ iterations = 0
    /\ fetches = <<>>
    /\ player_data = NoCandidate
    /\ result = NoResult
    /\ stats_dict = <<>>
    /\ performance = NoResult
    /\ color = ""
    /\ paged = FALSE
    /\ TeamIdle
    /\ requests = <<>>

SpecLeagues == InitLeagues /\ [][Next]_vars

-----------------------------------------------------------------------------
(* get_player_stats for a one-word name when the API answers the search    *)
(* with a candidate that has defects, for every such candidate.            *)

InitNormalize ==
    /\ pc = "idle"
    /\ entry = ""
    /\ player_full_name = <<"a">>
    /\ league_name = "Premier League"
    /\ first_name = <<>>
    /\ last_name = <<>>
    /\ pass = 0
    /\ player_name = <<>>
    /\ search_name = <<>>
    /\ iterations = 0
    /\ fetches = <<>>
    /\ player_data = NoCandidate
    /\ result = NoResult
    /\ stats_dict = <<>>
    /\ performance = NoResult
    /\ color = ""
    /\ paged = FALSE
    /\ TeamIdle
    /\ requests = <<>>

NextNormalize ==
    \/ get_player_stats
    \/ resolver_iteration_defects
    \/ get_player_stats_normalize
    \/ get_player_stats_normalize_again

SpecNormalize == InitNormalize /\ [][NextNormalize]_vars

-----------------------------------------------------------------------------
(* app.py: the performance score and its colour.                           *)

\* The values a team record's counters take: small tallies, and the figures
\* of two full seasons.
WinsValues == 0..MaxTally \cup {10, 12}

LossesValues == 0..MaxTally \cup {4}

GoalsValues == 0..MaxTally \cup {30, 40}

GamesValues == 0..MaxTally \cup {20}

PerformanceKeys == {"Total Wins", "Total Losses", "Total Goals Scored", "Total Games"}

\* stats_dict.get(key, default) for an int default
GetInt(d, k, default) == IF k \in DOMAIN d THEN d[k] ELSE default

\* A Python float that is the quotient of two ints, kept as the fraction.
Quotient(n, d) == [kind |-> "float", value |-> [num |-> n, den |-> d]]

ZeroDivisionError == [kind |-> "ZeroDivisionError", value |-> [num |-> 0, den |-> 0]]

calculate_performance(d) ==
    LET total_wins         == GetInt(d, "Total Wins", 0)
        total_losses       == GetInt(d, "Total Losses", 0)
        total_goals_scored == GetInt(d, "Total Goals Scored", 0)
        divisor            == GetInt(d, "Total Games", 1)
    IN  IF divisor = 0 THEN ZeroDivisionError
        ELSE Quotient(total_wins - total_losses + total_goals_scored, divisor)

\* q <= a/b for a float q = num/den with den > 0 and b > 0
FloatLeq(q, a, b) == q.num * b <= a * q.den

\* A colouring whose red band ends below 1 instead of at 1.
season_color_strict(q) ==
    IF q.num < q.den THEN "red"
    ELSE IF ~FloatLeq(q, 1, 1) /\ FloatLeq(q, 5, 2) THEN "yellow"
    ELSE "green"

\* The if / elif / else that colours the score.
season_color(q) ==
    IF FloatLeq(q, 1, 1) THEN "red"
    ELSE IF ~FloatLeq(q, 1, 1) /\ FloatLeq(q, 5, 2) THEN "yellow"
    ELSE "green"

InitPerformance ==
    /\ pc = "glance"
    /\ entry = "Season at a Glance"
    /\ player_full_name = <<>>
    /\ league_name = "Premier League"
    /\ first_name = <<>>
    /\ last_name = <<>>
    /\ pass = 0
    /\ player_name = <<>>
    /\ search_name = <<>>
    /\ iterations = 0
    /\ fetches = <<>>
    /\ player_data = NoCandidate
    /\ result = NoResult
    /\ \E keys \in SUBSET PerformanceKeys :
          \E w \in WinsValues, l \in LossesValues, g \in GoalsValues, n \in GamesValues :
             stats_dict = [k \in keys |->
                              CASE k = "Total Wins" -> w
                                [] k = "Total Losses" -> l
                                [] k = "Total Goals Scored" -> g
                                [] k = "Total Games" -> n]
    /\ performance = NoResult
    /\ color = ""
    /\ paged = FALSE
    /\ TeamIdle
    /\ requests = <<>>

\* performance = calculate_performance(stats_dict, season); a ZeroDivisionError
\* propagates and ends the computation.
season_performance ==
    /\ pc = "glance"
    /\ performance' = calculate_performance(stats_dict)
    /\ pc' = IF calculate_performance(stats_dict).kind = "float" THEN "color" ELSE "done"
    /\ UNCHANGED <<stats_dict, color, result>>
    /\ UNCHANGED resolverVars
    /\ UNCHANGED pagingVars
    /\ UNCHANGED <<teamVars, requests>>

\* The colour of the score.
season_color_choice ==
    /\ pc = "color"
    /\ color' = season_color(performance.value)
    /\ pc' = "done"
    /\ UNCHANGED <<stats_dict, performance, result>>
    /\ UNCHANGED resolverVars
    /\ UNCHANGED pagingVars
    /\ UNCHANGED <<teamVars, requests>>

NextPerformance ==
    \/ season_performance
    \/ season_color_choice

SpecPerformance == InitPerformance /\ [][NextPerformance]_vars

-----------------------------------------------------------------------------
(* The club lookup: get_team_stats, get_club_id, get_club_stats_from_api,  *)
(* and get_league_performance, which calls get_team_stats for every team.  *)

StatusCodes == {200, 500}

ClubNames == <<"Arsenal", "Chelsea", "Everton">>

\* A team of the league's team list, as the API reports it.
Team(i) ==
    [team  |-> [id |-> PyInt(i), name |-> ClubNames[i], country |-> "England"],
     venue |-> [id |-> PyInt(70 + i)]]

\* The keys get_league_performance reads from a team, in the order it reads
\* them.
TeamReads == <<"id", "name", "country">>

\* The answers the API may give for the i-th team: the complete entry, an
\* entry whose `team` lacks one of the keys, an entry without `team`.
TeamEntries(i) ==
    {Team(i), [venue |-> Team(i).venue]}
        \cup {[team  |-> [k \in DOMAIN Team(i).team \ {TeamReads[j]} |->
                             Team(i).team[k]],
                venue |-> Team(i).venue] : j \in 1..Len(TeamReads)}

\* The team lists of at most n teams.
RECURSIVE TeamLists(_)
TeamLists(n) ==
    IF n = 0 THEN {<<>>}
    ELSE TeamLists(n - 1)
            \cup {Append(ts, t) : ts \in {l \in TeamLists(n - 1) : Len(l) = n - 1},
                                  t \in TeamEntries(n)}

\* The key of the KeyError that team['team']['id'], ['name'], ['country']
\* raise on a team, "" when the three reads succeed.
team_missing_key(team) ==
    IF "team" \notin DOMAIN team THEN "team"
    ELSE IF \A j \in 1..Len(TeamReads) : TeamReads[j] \in DOMAIN team.team
    THEN ""
    ELSE TeamReads[CHOOSE j \in 1..Len(TeamReads) :
                       /\ TeamReads[j] \notin DOMAIN team.team
                       /\ \A k \in 1..(j - 1) : TeamReads[k] \in DOMAIN team.team]

\* What the statistics endpoint may answer for a club of a league's list.
LeagueClubResponses ==
    {PyNone,
     ClubData({}, DefaultLineups),
     ClubData({<<<<"team">>, "absent">>}, DefaultLineups),
     ClubData({<<<<"form">>, "absent">>}, DefaultLineups)}

\* team_stat['team_id'] = team_id; team_stat['team_name'] = team_name
with_team(team_stat, team) ==
    [Club      |-> team_stat.Club,
     Stats     |-> team_stat.Stats,
     team_id   |-> team.team.id,
     team_name |-> team.team.name]

\* get_team_stats returns r: to the caller, or into the loop of
\* get_league_performance, which keeps the dicts and lets exceptions through.
team_returns(r) ==
    IF entry = "get_team_stats" \/ r.kind \in {"KeyError", "TypeError"}
    THEN /\ result' = r
         /\ pc' = "done"
         /\ UNCHANGED <<team_index, team_stats>>
    ELSE /\ team_stats' = IF r.kind = "record"
                          THEN Append(team_stats,
                                      with_team(r.value, teams[team_index]))
                          ELSE team_stats
         /\ team_index' = team_index + 1
         /\ pc' = "team_loop"
         /\ UNCHANGED result

\* get_team_stats up to the call of get_club_id: the league check.
get_team_stats ==
    /\ pc = "idle"
    /\ entry' = "get_team_stats"
    /\ IF ~league_is_valid(league_name)
       THEN /\ pc' = "done"
            /\ result' = Message("Invalid league name")
       ELSE /\ pc' = "club_id"
            /\ UNCHANGED result
    /\ UNCHANGED <<searchVars, teamVars, requests>>
    /\ UNCHANGED perfVars
    /\ UNCHANGED pagingVars

\* A club lookup whose caller goes on whatever the lookup returned.
get_club_id_unchecked ==
    /\ pc = "club_id"
    /\ \E status \in StatusCodes, n \in 0..1 :
          /\ (status # 200) => (n = 0)
          /\ status_code' = status
          /\ results' = n
          /\ requests' = Append(requests, "teams")
          /\ club_id' = IF status = 200 /\ n > 0 THEN PyInt(1) ELSE PyNone
          /\ pc' = "club_stats"
    /\ UNCHANGED <<result, team_index, team_stats, club_data, teams>>
    /\ UNCHANGED resolverVars
    /\ UNCHANGED perfVars
    /\ UNCHANGED pagingVars

\* get_club_id, and the `club_id is None` test of its caller.
get_club_id ==
    /\ pc = "club_id"
    /\ \E status \in StatusCodes, n \in 0..1 :
          /\ (status # 200) => (n = 0)
          /\ status_code' = status
          /\ results' = n
          /\ requests' = Append(requests, "teams")
          /\ IF status = 200 /\ n > 0
             THEN /\ club_id' = PyInt(1)
                  /\ pc' = "club_stats"
                  /\ UNCHANGED <<result, team_index, team_stats>>
             ELSE /\ club_id' = PyNone
                  /\ team_returns(Message("No club found"))
    /\ UNCHANGED <<club_data, teams>>
    /\ UNCHANGED resolverVars
    /\ UNCHANGED perfVars
    /\ UNCHANGED pagingVars

\* get_club_stats_from_api, and get_team_stats from its return on.
get_club_stats_from_api ==
    /\ pc = "club_stats"
    /\ \E response \in IF entry = "get_team_stats"
                       THEN ClubResponses ELSE LeagueClubResponses :
          /\ club_data' = response
          /\ requests' = Append(requests, "teams/statistics")
          /\ team_returns(normalize_team(response))
    /\ UNCHANGED <<club_id, teams, status_code, results>>
    /\ UNCHANGED resolverVars
    /\ UNCHANGED perfVars
    /\ UNCHANGED pagingVars

\* get_club_logo: the request to the teams endpoint and the logo of the
\* first club of the answer, None when the status is not 200 or no club was
\* found.
get_club_logo ==
    /\ pc = "idle"
    /\ entry' = "get_club_logo"
    /\ \E status \in StatusCodes, n \in 0..1 :
          /\ (status # 200) => (n = 0)
          /\ status_code' = status
          /\ results' = n
          /\ requests' = Append(requests, "teams")
          /\ result' = IF status = 200 /\ n > 0
                       THEN [kind |-> "logo", value |-> "logo.png"]
                       ELSE NoCandidate
    /\ pc' = "done"
    /\ UNCHANGED <<club_id, club_data, teams, team_index, team_stats>>
    /\ UNCHANGED searchVars
    /\ UNCHANGED perfVars
    /\ UNCHANGED pagingVars

\* get_league_performance up to its loop: the league check and the request
\* for the league's teams.
get_league_performance ==
    /\ pc = "idle"
    /\ entry' = "get_league_performance"
    /\ IF ~league_is_valid(league_name)
       THEN /\ pc' = "done"
            /\ result' = Message("Invalid league name")
            /\ UNCHANGED <<teams, team_index, requests>>
       ELSE \E response \in TeamLists(MaxTeams) :
              /\ teams' = response
              /\ requests' = Append(requests, "teams")
              /\ IF Len(response) > 0
                 THEN /\ team_index' = 1
                      /\ pc' = "team_loop"
                      /\ UNCHANGED result
                 ELSE /\ pc' = "done"
                      /\ result' = Message("No teams found")
                      /\ UNCHANGED team_index
    /\ UNCHANGED <<club_id, club_data, team_stats, status_code, results>>
    /\ UNCHANGED searchVars
    /\ UNCHANGED perfVars
    /\ UNCHANGED pagingVars

\* The head of `for team in response_data['response']`: the reads of the
\* team's id, name and country, whose KeyError ends the call, then the call
\* of get_team_stats for the team (its league check passes, the league being
\* the caller's); or the return of the list.
league_loop ==
    /\ pc = "team_loop"
    /\ IF team_index > Len(teams)
       THEN /\ result' = [kind |-> "list", value |-> team_stats]
            /\ pc' = "done"
       ELSE IF team_missing_key(teams[team_index]) # ""
       THEN /\ result' = [kind |-> "KeyError",
                          value |-> team_missing_key(teams[team_index])]
            /\ pc' = "done"
       ELSE /\ pc' = "club_id"
            /\ UNCHANGED result
    /\ UNCHANGED <<teamVars, requests>>
    /\ UNCHANGED resolverVars
    /\ UNCHANGED perfVars
    /\ UNCHANGED pagingVars

NextTeam ==
    \/ get_team_stats
    \/ get_club_id
    \/ get_club_logo
    \/ get_club_stats_from_api
    \/ get_league_performance
    \/ league_loop

InitTeam ==
    /\ pc = "idle"
    /\ entry = ""
    /\ player_full_name = <<>>
    /\ league_name \in LeagueInputs
    /\ first_name = <<>>
    /\ last_name = <<>>
    /\ pass = 0
    /\ player_name = <<>>
    /\ search_name = <<>>
    /\ iterations = 0
    /\ fetches = <<>>
    /\ player_data = NoCandidate
    /\ result = NoResult
    /\ stats_dict = <<>>
    /\ performance = NoResult
    /\ color = ""
    /\ paged = FALSE
    /\ TeamIdle
    /\ requests = <<>>

SpecTeam == InitTeam /\ [][NextTeam]_vars

-----------------------------------------------------------------------------
(* The three entry points that take a league name, side by side.           *)

InitCalls ==
    /\ pc = "idle"
    /\ entry = ""
    /\ player_full_name \in ShortQueries
    /\ league_name \in LeagueInputs
    /\ first_name = <<>>
    /\ last_name = <<>>
    /\ pass = 0
    /\ player_name = <<>>
    /\ search_name = <<>>
    /\ iterations = 0
    /\ fetches = <<>>
    /\ player_data = NoCandidate
    /\ result = NoResult
    /\ stats_dict = <<>>
    /\ performance = NoResult
    /\ color = ""
    /\ paged = FALSE
    /\ TeamIdle
    /\ requests = <<>>

NextCalls == Next \/ NextTeam

SpecCalls == InitCalls /\ [][NextCalls]_vars

-----------------------------------------------------------------------------
(* The players of a club, page by page: get_players_from_api.              *)

\* The j-th player of page p.
Player(p, j) == PyInt(10 * p + j)

\* What the API holds for a club: a number of pages, each a list of players
\* (an empty list where the API has nothing to show for a page).
ClubPages ==
    UNION {{[p \in 1..total |-> [j \in 1..n[p] |-> Player(p, j)]] :
               n \in [1..total -> 0..MaxPageLen]} : total \in 0..MaxPages}

\* The value a call returns when its recursive call returned r and the
\* calls still in progress hold the lists fs: each `players.extend(r)`
\* appends a list and raises TypeError on None.
RECURSIVE extend_up(_, _)
extend_up(fs, r) ==
    IF Len(fs) = 0 THEN r
    ELSE IF r.kind # "list"
    THEN [kind |-> "TypeError", value |-> "'NoneType' object is not iterable"]
    ELSE extend_up(SubSeq(fs, 1, Len(fs) - 1),
                   [kind |-> "list", value |-> fs[Len(fs)] \o r.value])

\* One call of get_players_from_api, the outer one or a recursive one: the
\* request for its page, then either the recursive call for the next page
\* or its return and, with it, the return of every call in progress.
get_players_from_api ==
    /\ pc \in {"idle", "page"}
    /\ entry' = "get_players_from_api"
    /\ LET response == IF page \in 1..Len(club_pages)
                        THEN club_pages[page] ELSE <<>>
           current  == page
           total    == Len(club_pages)
       IN  /\ requests' = Append(requests, "players")
           /\ IF Len(response) > 0 /\ current < total
              THEN /\ frames' = Append(frames, response)
                   /\ page' = page + 1
                   /\ pc' = "page"
                   /\ UNCHANGED result
              ELSE /\ result' = extend_up(frames,
                                          IF Len(response) > 0
                                          THEN [kind |-> "list", value |-> response]
                                          ELSE NoCandidate)
                   /\ pc' = "done"
                   /\ UNCHANGED <<page, frames>>
    /\ UNCHANGED club_pages
    /\ UNCHANGED <<searchVars, teamVars>>
    /\ UNCHANGED perfVars

InitPlayers ==
    /\ pc = "idle"
    /\ entry = ""
    /\ player_full_name = <<>>
    /\ league_name = "Premier League"
    /\ first_name = <<>>
    /\ last_name = <<>>
    /\ pass = 0
    /\ player_name = <<>>
    /\ search_name = <<>>
    /\ iterations = 0
    /\ fetches = <<>>
    /\ player_data = NoCandidate
    /\ result = NoResult
    /\ stats_dict = <<>>
    /\ performance = NoResult
    /\ color = ""
    /\ paged = FALSE
    /\ club_id = PyNone
    /\ club_data = PyNone
    /\ teams = <<>>
    /\ team_index = 0
    /\ team_stats = <<>>
    /\ status_code = 0
    /\ results = 0
    /\ requests = <<>>
    /\ club_pages \in ClubPages
    /\ page \in 1..(IF Len(club_pages) = 0 THEN 1 ELSE Len(club_pages))
    /\ frames = <<>>

NextPlayers == get_players_from_api

SpecPlayers == InitPlayers /\ [][NextPlayers]_vars

-----------------------------------------------------------------------------
(* Properties of the resolver (checked under Spec).                        *)

\* The search strings of the resolver call that is running or has just ended
\* are the last `iterations` entries of fetches.
CallBase == Len(fetches) - iterations

LastFetch == fetches[Len(fetches)]

\* All candidates of all responses received so far.
CandidatesSeen ==
    UNION {{fetches[i].response[j] : j \in 1..Len(fetches[i].response)} :
              i \in 1..Len(fetches)}

\* C1 (as claimed): the candidate the resolver returns has, among all
\* candidates received in any trimming iteration, a diacritic-stripped name
\* of minimal Levenshtein distance to the diacritic-stripped query as given
\* (the full player_name, not the trimmed search string).
C1_ClosestToFullQuery ==
    (player_data.kind = "candidate" /\ Len(fetches) > 0) =>
        \A c \in CandidatesSeen :
            distance(unidecode(player_name), unidecode(player_data.value.player.name.val))
                <= distance(unidecode(player_name), unidecode(c.player.name.val))

\* C2 (as claimed): when every fetch returned an empty pool the resolver
\* ends with None after exactly len(query) iterations.
C2_LenQueryIterations ==
    (pc \in {"loop", "done"} /\ search_name = <<>>) =>
        iterations = Len(player_name)

\* C2 (amended): the resolver's loop always ends; when every fetch returned
\* an empty pool it ends with None after exactly len(unidecode(query))
\* iterations, the k-th of which searched the stripped query without its
\* first k-1 characters, and the search string is then empty.
C2_StrippedLenIterations ==
    /\ (pc = "loop") =>
          Len(search_name) + iterations = Len(unidecode(player_name))
    /\ (pc \in {"loop", "done"} /\ search_name = <<>>) =>
          LET stripped == unidecode(player_name)
              n        == Len(stripped)
          IN  /\ iterations = n
              /\ CallBase >= 0
              /\ \A k \in 1..n :
                    /\ fetches[CallBase + k].search = SubSeq(stripped, k, n)
                    /\ Len(fetches[CallBase + k].response) = 0
              /\ (pc = "done" /\ entry = "get_player_stats_from_api")
                    => result.kind = "None"

\* C2 witness: a one-character query whose stripped form has two characters
\* was searched twice and the resolver returned None.
C2_Witness ==
    /\ pc = "done"
    /\ entry = "get_player_stats_from_api"
    /\ result.kind = "None"
    /\ player_name = <<"U+00E6">>
    /\ iterations = 2

\* C3 (as claimed): in get_player_stats with a non-empty surname, when the
\* search with the full "first-name surname" string returns nothing, the next
\* string sent is the surname alone.
C3_SurnameBeforeTrimming ==
    (entry = "get_player_stats" /\ Len(last_name) > 0 /\ Len(fetches) >= 2
        /\ Len(fetches[1].response) = 0) =>
        fetches[2].search = unidecode(last_name)

\* C3 (amended): get_player_stats sends the surname alone only after the full
\* string and every trimmed form of it have been sent and returned nothing:
\* the fetches are the full string, its trimmed forms, then the surname and
\* its trimmed forms.
C3_SurnameAfterTrimming ==
    (entry = "get_player_stats" /\ pass = 2) =>
        LET full    == unidecode(first_name \o <<" ">> \o last_name)
            surname == unidecode(last_name)
            n       == Len(full)
        IN  /\ Len(fetches) >= n
            /\ \A k \in 1..n :
                  /\ fetches[k].search = SubSeq(full, k, n)
                  /\ Len(fetches[k].response) = 0
            /\ \A k \in (n + 1)..Len(fetches) :
                  fetches[k].search = SubSeq(surname, k - n, Len(surname))

\* C3 witness: a two-word query whose surname has been sent, after the three
\* forms of the full string.
C3_Witness ==
    /\ entry = "get_player_stats"
    /\ pass = 2
    /\ player_full_name = <<"a", " ", "e">>
    /\ Len(fetches) = 4
    /\ fetches[4].search = <<"e">>

\* The key of the j-th candidate of the last response.
LastKey(j) ==
    distance(LastFetch.search, unidecode(LastFetch.response[j].player.name.val))

\* C4: the returned candidate is an element of the last response with the
\* minimal distance, and every element before it has a strictly larger one.
C4_FirstMinimumWins ==
    (player_data.kind = "candidate" /\ Len(fetches) > 0) =>
        \E i \in 1..Len(LastFetch.response) :
            /\ LastFetch.response[i] = player_data.value
            /\ \A j \in 1..Len(LastFetch.response) :
                  /\ LastKey(i) <= LastKey(j)
                  /\ (j < i) => (LastKey(i) < LastKey(j))

\* C4 witness: two candidates of different names at the same, minimal
\* distance, and the first one returned.
C4_Witness ==
    /\ player_data.kind = "candidate"
    /\ Len(fetches) > 0
    /\ Len(LastFetch.response) = 2
    /\ LastFetch.response[1].player.name # LastFetch.response[2].player.name
    /\ LastKey(1) = LastKey(2)
    /\ player_data.value.player.id = 1

\* C24: the candidate the resolver returns is a member of the pool of the
\* last fetch and minimises the Levenshtein distance between its stripped
\* name and the search string of that same iteration (the trimmed string
\* that produced the pool); the pools of the other search strings of the
\* call were empty, so none of them is consulted.
C24_MinimalForTrimmedSearch ==
    (player_data.kind = "candidate" /\ iterations >= 1) =>
        LET stripped == unidecode(player_name)
            chosen   == player_data.value
        IN  /\ LastFetch.search = search_name
            /\ search_name = SubSeq(stripped, iterations, Len(stripped))
            /\ \E i \in 1..Len(LastFetch.response) : LastFetch.response[i] = chosen
            /\ \A j \in 1..Len(LastFetch.response) :
                   distance(search_name, unidecode(chosen.player.name.val)) <= LastKey(j)
            /\ \A k \in (CallBase + 1)..(Len(fetches) - 1) :
                   Len(fetches[k].response) = 0
            /\ (pc = "done" /\ entry = "get_player_stats_from_api")
                   => result = Found(chosen)

\* After one trimming, a pool of two whose second candidate, with a
\* non-ASCII name, is the closer one to the trimmed string and is returned.
C24_Witness ==
    /\ pc = "done"
    /\ entry = "get_player_stats_from_api"
    /\ iterations = 2
    /\ Len(fetches[1].response) = 0
    /\ Len(LastFetch.response) = 2
    /\ LastFetch.response[2].player.name.val = <<"U+00E6">>
    /\ LastKey(2) < LastKey(1)
    /\ result = Found(LastFetch.response[2])

\* The fetches of the resolver call in progress (or just returned) follow
\* the suffixes of the stripped input, and only the last may be non-empty.
SuffixFetches ==
    LET stripped == unidecode(player_name)
        n        == Len(stripped)
    IN  /\ iterations <= n
        /\ \A k \in 1..iterations :
               /\ fetches[CallBase + k].search = SubSeq(stripped, k, n)
               /\ Len(fetches[CallBase + k].search) = n - k + 1
               /\ Len(fetches[CallBase + k].search) > 0
               /\ (k < iterations) => (Len(fetches[CallBase + k].response) = 0)

\* C25: within one call of get_player_stats_from_api the k-th fetch
\* (k = 0, 1, ...) uses the suffix of the stripped input that starts at
\* position k: every search string sent is non-empty and one character
\* shorter than the one before, no fetch follows a fetch that returned a
\* non-empty pool, and the result is None exactly when every non-empty
\* suffix returned an empty pool.
C25_SuffixPerFetch ==
    /\ [](entry \in {"get_player_stats", "get_player_stats_from_api"}
             => SuffixFetches)
    /\ []((pc = "done" /\ entry = "get_player_stats_from_api") =>
             (result.kind = "None" <=>
                 /\ iterations = Len(unidecode(player_name))
                 /\ \A k \in 1..iterations : Len(fetches[k].response) = 0))
    /\ [][(Len(fetches) >= 1 /\ Len(LastFetch.response) > 0)
             => fetches' = fetches]_vars

\* The two-character name U+00E6, "a" is stripped to "aea"; the third
\* fetch, for "a", is the first to return a pool.
C25_Witness ==
    /\ pc = "done"
    /\ entry = "get_player_stats_from_api"
    /\ player_name = <<"U+00E6", "a">>
    /\ iterations = 3
    /\ fetches[1].search = <<"a", "e", "a">>
    /\ fetches[3].search = <<"a">>
    /\ Len(fetches[3].response) > 0
    /\ result.kind = "candidate"

-----------------------------------------------------------------------------
(* Properties of the normalisation (checked under SpecNormalize).          *)

\* The statistics entry of the candidate being normalised.
SourceStats == player_data.value.statistics[1]

\* The resolver returned a candidate: it is the chosen candidate.
Chosen == player_data.kind = "candidate"

\* Whether the source has the leaf of statistic n, and the leaf's value.
HasSource(n) ==
    /\ StatPath(n)[1] \in DOMAIN SourceStats
    /\ StatPath(n)[2] \in DOMAIN SourceStats[StatPath(n)[1]]

Source(n) == SourceStats[StatPath(n)[1]][StatPath(n)[2]]

Returned == pc = "done" /\ result.kind = "record"

Out(n) == result.value.Stats[n]

\* C5: a candidate whose goals.assists is null gives Assists = 0 in the
\* returned record, and a candidate without the key shots.total gives no
\* record: the call ends with the KeyError.
C5_AssistsDefaultShotsRequired ==
    /\ (Returned /\ Source("Assists") = PyNone) => Out("Assists") = PyInt(0)
    /\ (pc = "done" /\ Chosen /\ "shots" \in DOMAIN SourceStats
           /\ "total" \notin DOMAIN SourceStats.shots) => result.kind = "KeyError"

\* C5 witness: a record was returned for a candidate with null assists.
C5_Witness ==
    /\ Returned
    /\ Source("Assists") = PyNone
    /\ Out("Assists") = PyInt(0)

\* C6 (as claimed): the shots, dribbles, key-passes and fouls statistics are
\* copied from the source to the record unchanged.
C6_FoulsCopiedUnchanged ==
    Returned =>
        \A n \in {"Total Shots", "Shots on Target", "Dribble Attempts",
                  "Dribble Successes", "Key Passes", "Fouls Drawn",
                  "Fouls Committed"} : Out(n) = Source(n)

\* C6 (amended): 0 replaces a null source value for exactly Assists, Pass
\* Success Rate, Duels Won, Total Tackles, Interceptions, Blocks, Fouls Drawn
\* and Fouls Committed (a non-null value of these is copied); Goals and the
\* shots, dribbles and key-passes statistics are copied unchanged, null
\* included.
C6_DefaultedExactlyEight ==
    Returned =>
        /\ \A n \in {"Assists", "Pass Success Rate", "Duels Won",
                     "Total Tackles", "Interceptions", "Blocks", "Fouls Drawn",
                     "Fouls Committed"} :
              HasSource(n) =>
                  Out(n) = IF Source(n) = PyNone THEN PyInt(0) ELSE Source(n)
        /\ \A n \in {"Goals", "Total Shots", "Shots on Target",
                     "Dribble Attempts", "Dribble Successes", "Key Passes"} :
              Out(n) = Source(n)

\* C6 witness: a record whose Fouls Drawn is 0 for a null source value and
\* whose Total Shots is the null of its source.
C6_Witness ==
    /\ Returned
    /\ Source("Fouls Drawn") = PyNone
    /\ Out("Fouls Drawn") = PyInt(0)
    /\ Source("Total Shots") = PyNone
    /\ Out("Total Shots") = PyNone

\* C7 (as claimed): no statistic of a returned record is null.
C7_NeverNull ==
    Returned => \A n \in DOMAIN result.value.Stats : Out(n) # PyNone

\* C8: a returned mapping has exactly the sub-mappings Player and Stats, with
\* exactly the five identity keys and the fourteen statistic names.
C8_ClosedKeySets ==
    Returned =>
        /\ DOMAIN result.value = {"Player", "Stats"}
        /\ DOMAIN result.value.Player =
              {"Name", "Photo", "Team Logo", "Nationality", "Team"}
        /\ DOMAIN result.value.Stats =
              {"Goals", "Assists", "Total Shots", "Shots on Target",
               "Dribble Attempts", "Dribble Successes", "Key Passes",
               "Pass Success Rate", "Duels Won", "Total Tackles",
               "Interceptions", "Blocks", "Fouls Drawn", "Fouls Committed"}

\* C8 witness: a record returned for a candidate with a null leaf and an
\* absent optional key.
C8_Witness ==
    /\ Returned
    /\ Source("Goals") = PyNone
    /\ "won" \notin DOMAIN SourceStats.duels
    /\ Cardinality(DOMAIN result.value.Stats) = 14

\* The group of statistic n is in the source and lacks the key of n.
KeyAbsent(n) ==
    /\ StatPath(n)[1] \in DOMAIN SourceStats
    /\ StatPath(n)[2] \notin DOMAIN SourceStats[StatPath(n)[1]]

\* The key of statistic n is in the source with a null value.
KeyNull(n) == HasSource(n) /\ Source(n) = PyNone

\* C28: Pass Success Rate, Duels Won and Total Tackles are 0 both when the
\* source key is null and when it is absent from its group, whereas an
\* absent interceptions, blocks, fouls.drawn or fouls.committed key makes
\* the call fail although a null value of the same field gives 0.
C28_AbsentOrNullDefaults ==
    /\ Returned =>
           /\ \A n \in {"Pass Success Rate", "Duels Won", "Total Tackles"} :
                  (KeyAbsent(n) \/ KeyNull(n)) => (Out(n) = PyInt(0))
           /\ \A n \in {"Interceptions", "Blocks", "Fouls Drawn", "Fouls Committed"} :
                  /\ ~KeyAbsent(n)
                  /\ KeyNull(n) => (Out(n) = PyInt(0))
    /\ (/\ pc = "done"
        /\ Chosen
        /\ \E n \in {"Interceptions", "Blocks", "Fouls Drawn", "Fouls Committed"} :
               KeyAbsent(n))
           => result.kind = "KeyError"

\* A record with Duels Won 0 for an absent key and Blocks 0 for a null.
C28_Witness ==
    /\ Returned
    /\ KeyAbsent("Duels Won")
    /\ Out("Duels Won") = PyInt(0)
    /\ KeyNull("Blocks")
    /\ Out("Blocks") = PyInt(0)

\* The blocks key is absent from the tackles group and the call failed on
\* it.
C28_WitnessAbsentBlocks ==
    /\ pc = "done"
    /\ Chosen
    /\ KeyAbsent("Blocks")
    /\ result.kind = "KeyError"
    /\ result.value = "blocks"

\* Same outcome and, for a record or a raised key, same content.
SameResult(r1, r2) == r1.kind = r2.kind /\ r1.value = r2.value

-----------------------------------------------------------------------------
(* Properties of the performance score (checked under SpecPerformance).    *)

\* C9 (as claimed): with Total Games = 0 the score is computed with the
\* divisor 1: it is wins - losses + goals scored.
C9_ZeroGamesDividesByOne ==
    (pc # "glance" /\ DOMAIN stats_dict = PerformanceKeys
        /\ stats_dict["Total Games"] = 0) =>
        /\ performance.kind = "float"
        /\ performance.value =
              [num |-> stats_dict["Total Wins"] - stats_dict["Total Losses"]
                          + stats_dict["Total Goals Scored"],
               den |-> 1]

\* C30: the Season at a Glance computation for a team record whose
\* 'Total Games' is 0 completes without a division by zero: the score is
\* computed and its colour is chosen.
C30_ZeroGamesCompletes ==
    (/\ pc = "done"
     /\ entry = "Season at a Glance"
     /\ "Total Games" \in DOMAIN stats_dict
     /\ stats_dict["Total Games"] = 0)
        => /\ performance.kind = "float"
           /\ color \in {"red", "yellow", "green"}

\* The score of a complete team record with games > 0, as the fraction
\* ScoreNum / ScoreDen.
ScoreNum ==
    stats_dict["Total Wins"] - stats_dict["Total Losses"]
        + stats_dict["Total Goals Scored"]

ScoreDen == stats_dict["Total Games"]

\* C10: the score (wins - losses + goals) / games of a team record is
\* coloured red when it is at most 1, yellow when it is above 1 and at most
\* 2.5, green when it is above 2.5, and 12 wins, 4 losses, 40 goals in 20
\* games are yellow.
C10_ColourBands ==
    (pc = "done" /\ DOMAIN stats_dict = PerformanceKeys /\ ScoreDen > 0) =>
        /\ performance.kind = "float"
        /\ performance.value.num * ScoreDen = ScoreNum * performance.value.den
        /\ color \in {"red", "yellow", "green"}
        /\ (color = "red") <=> (ScoreNum <= ScoreDen)
        /\ (color = "yellow") <=>
              (ScoreNum > ScoreDen /\ 2 * ScoreNum <= 5 * ScoreDen)
        /\ (color = "green") <=> (2 * ScoreNum > 5 * ScoreDen)
        /\ (stats_dict = [k \in PerformanceKeys |->
                             CASE k = "Total Wins" -> 12
                               [] k = "Total Losses" -> 4
                               [] k = "Total Goals Scored" -> 40
                               [] k = "Total Games" -> 20])
              => color = "yellow"

\* C10 witness: the record of 12 wins, 4 losses, 40 goals and 20 games has
\* been scored 48/20 and coloured yellow.
C10_Witness ==
    /\ pc = "done"
    /\ DOMAIN stats_dict = PerformanceKeys
    /\ stats_dict["Total Wins"] = 12
    /\ stats_dict["Total Losses"] = 4
    /\ stats_dict["Total Goals Scored"] = 40
    /\ stats_dict["Total Games"] = 20
    /\ performance.value = [num |-> 48, den |-> 20]
    /\ color = "yellow"

-----------------------------------------------------------------------------
(* Properties of get_player_stats as a whole (checked under Spec).         *)

\* C15: for a single-word query, the first search string get_player_stats
\* sends to the API is the word itself (diacritics stripped), with no
\* first-name component and no separator added.
C15_SingleWordSearchedAsIs ==
    (/\ entry = "get_player_stats"
     /\ Len(player_full_name) > 0
     /\ Len(split(player_full_name)) = 1
     /\ Len(fetches) >= 1)
        => fetches[1].search = unidecode(player_full_name)

\* C16 (as claimed): one call of get_player_stats, both passes included,
\* issues at most len(query) fetches (stated for the queries of several
\* words, whose first search string is the query itself).
C16_AtMostLenQueryFetches ==
    (entry = "get_player_stats" /\ Len(split(player_full_name)) >= 2)
        => Len(fetches) <= Len(player_full_name)

\* C16 (amended): one call of get_player_stats issues at most one fetch per
\* character of the stripped first search string (first name, a space,
\* surname) plus one per character of the stripped surname, and exactly
\* that many when no fetch returns a candidate.
C16_AtMostBothPassesFetches ==
    (entry = "get_player_stats" /\ pass >= 1) =>
        LET bound == Len(unidecode(first_name \o <<" ">> \o last_name))
                        + Len(unidecode(last_name))
        IN  /\ Len(fetches) <= bound
            /\ Len(requests) = Len(fetches)
            /\ (pc = "done" /\ result.kind = "message") => Len(fetches) = bound

\* The three-character query "a e" is given up after four fetches.
C16_Witness ==
    /\ pc = "done"
    /\ entry = "get_player_stats"
    /\ player_full_name = <<"a", " ", "e">>
    /\ result = Message("No stats found")
    /\ Len(fetches) = 4
    /\ fetches[4].search = <<"e">>

\* C23: for a query of several words, splitting on single spaces into
\* 'all but the last token' and 'last token' and joining the two with a
\* space gives back the original input: the initial search string passed to
\* the resolver is the query, character for character, also with
\* consecutive or trailing spaces; the first string sent is its stripped
\* form.
C23_SplitJoinRoundTrip ==
    (/\ entry = "get_player_stats"
     /\ pass >= 1
     /\ Len(split(player_full_name)) >= 2)
        => /\ first_name \o <<" ">> \o last_name = player_full_name
           /\ (pass = 1) => (player_name = player_full_name)
           /\ (Len(fetches) >= 1) =>
                  (fetches[1].search = unidecode(player_full_name))

\* The query "a", space, space: two consecutive spaces, the last one
\* trailing; the first name is "a " and the surname is empty.
C23_Witness ==
    /\ entry = "get_player_stats"
    /\ player_full_name = <<"a", " ", " ">>
    /\ first_name = <<"a", " ">>
    /\ last_name = <<>>
    /\ Len(fetches) >= 1
    /\ fetches[1].search = <<"a", " ", " ">>

\* The fetch behaved as a function so far: the same search string always
\* got the same pool.
DeterministicFetch ==
    \A i, j \in 1..Len(fetches) :
        (fetches[i].search = fetches[j].search)
            => (fetches[i].response = fetches[j].response)

\* C26: with a deterministic fetch, the surname-only second pass of
\* get_player_stats never finds a candidate: every search string of the
\* second pass was already sent in the first pass and returned empty, so
\* the second pass returns None too and any record comes from the first
\* pass.
C26_SecondPassFindsNothing ==
    (entry = "get_player_stats" /\ pass = 2 /\ DeterministicFetch) =>
        /\ CallBase = Len(unidecode(first_name \o <<" ">> \o last_name))
        /\ \A k \in (CallBase + 1)..Len(fetches) :
               /\ \E i \in 1..CallBase :
                      /\ fetches[i].search = fetches[k].search
                      /\ Len(fetches[i].response) = 0
               /\ Len(fetches[k].response) = 0
        /\ player_data.kind # "candidate"
        /\ (pc = "done") => (result = Message("No stats found"))

\* The query "e a": the second pass sent "a" again, which the first pass
\* had sent as its third string, and gave up.
C26_Witness ==
    /\ entry = "get_player_stats"
    /\ pass = 2
    /\ DeterministicFetch
    /\ player_full_name = <<"e", " ", "a">>
    /\ Len(fetches) = 4
    /\ fetches[3].search = <<"a">>
    /\ fetches[4].search = <<"a">>
    /\ pc = "done"
    /\ result = Message("No stats found")

\* C18: the pool over which the resolver takes the minimum is the
\* concatenation of all result pages the API has for the search string
\* (checked under SpecPaged, where the API holds candidates on later pages).
C18_PoolIsAllPages ==
    (pc \in {"found", "done"} /\ player_data.kind = "candidate") =>
        player_data.value
            = best_match(LastFetch.response \o LastFetch.later, LastFetch.search)

-----------------------------------------------------------------------------
(* Properties of the league table (checked under SpecLeagues).             *)

InvalidLeagueReturned ==
    pc = "done" /\ result.kind = "message" /\ result.value = "Invalid league name"

\* C19: the league table has exactly ten names, each mapped to a numeric
\* id, the ids pairwise distinct; each of the ten names passes the league
\* validation, and every other name, the empty string included, is
\* rejected as an invalid league.
C19_LeagueTable ==
    /\ Cardinality(DOMAIN LEAGUE_IDS) = 10
    /\ \A n \in DOMAIN LEAGUE_IDS : LEAGUE_IDS[n] \in Nat
    /\ \A n1, n2 \in DOMAIN LEAGUE_IDS : (n1 # n2) => (LEAGUE_IDS[n1] # LEAGUE_IDS[n2])
    /\ (entry = "get_player_stats") =>
           IF league_name \in {"Premier League", "Bundesliga", "La Liga (Spain)",
                               "Serie A", "Ligue 1", "Eredivisie",
                               "Serie A (Brazil)", "Primeira Liga", "Liga MX",
                               "Premier League (Russia)"}
           THEN /\ ~InvalidLeagueReturned
                /\ pass >= 1
           ELSE /\ InvalidLeagueReturned
                /\ fetches = <<>>

\* A name of the table other than the first was accepted and a record
\* returned.
C19_Witness ==
    /\ entry = "get_player_stats"
    /\ league_name = "Serie A (Brazil)"
    /\ Returned

\* The empty league name was rejected.
C19_WitnessEmptyName ==
    /\ entry = "get_player_stats"
    /\ league_name = ""
    /\ InvalidLeagueReturned

-----------------------------------------------------------------------------
(* Properties of get_team_stats (checked under SpecTeam).                  *)

\* get_team_stats, called on its own, has returned a dict.
TeamReturned ==
    pc = "done" /\ entry = "get_team_stats" /\ result.kind = "record"

SourceLineups == club_data.lineups

LineupsOut == result.value.Stats["Lineups"]

\* The last position of the formation label f in the source lineups list.
LastOccurrence(f) ==
    CHOOSE i \in 1..Len(SourceLineups) :
        /\ SourceLineups[i].formation = f
        /\ \A j \in (i + 1)..Len(SourceLineups) : SourceLineups[j].formation # f

\* C11: the keys of the Lineups mapping are exactly the formation labels of
\* the source lineups list, each mapped to the 'played' count of its last
\* occurrence (a duplicate overwrites, it is not summed); an empty list
\* gives an empty mapping.
C11_LineupsLastWins ==
    TeamReturned =>
        /\ DOMAIN LineupsOut =
               {SourceLineups[i].formation : i \in 1..Len(SourceLineups)}
        /\ \A f \in DOMAIN LineupsOut :
               LineupsOut[f] = SourceLineups[LastOccurrence(f)].played
        /\ (Len(SourceLineups) = 0) => (DOMAIN LineupsOut = {})

\* A label occurs twice with different counts, another label in between,
\* and the mapping holds the later count.
C11_Witness ==
    /\ TeamReturned
    /\ Len(SourceLineups) = 3
    /\ SourceLineups[1].formation = "4-3-3"
    /\ SourceLineups[2].formation = "4-4-2"
    /\ SourceLineups[3].formation = "4-3-3"
    /\ SourceLineups[1].played = PyInt(10)
    /\ SourceLineups[3].played = PyInt(3)
    /\ LineupsOut["4-3-3"] = PyInt(3)
    /\ LineupsOut["4-4-2"] = SourceLineups[2].played

TeamOut(n) == result.value.Stats[n]

\* get_team_stats, called on its own, got club data with a 'team' key and
\* went on to read the statistics.
TeamStatsRead ==
    /\ pc = "done"
    /\ entry = "get_team_stats"
    /\ "type" \notin DOMAIN club_data
    /\ "team" \in DOMAIN club_data

\* The subscript chains over fixtures, form, goals, biggest, clean_sheet,
\* failed_to_score and lineups.
StatChains ==
    {TeamStatPath(TeamStatNames[i]) : i \in 1..Len(TeamStatNames)}
        \cup {<<"lineups">>}

\* C13: get_team_stats defaults no team statistic: a null source value is
\* copied to the output as null, and when a key it traverses (fixtures,
\* goals, biggest, clean_sheet, failed_to_score, form, lineups or one of
\* their sub-keys) is absent, the call fails and returns no record.
C13_NoTeamDefaulting ==
    /\ TeamReturned =>
           \A i \in 1..Len(TeamStatNames) :
               /\ Subscript(club_data, TeamStatPath(TeamStatNames[i])).kind = "value"
               /\ TeamOut(TeamStatNames[i])
                      = Subscript(club_data, TeamStatPath(TeamStatNames[i])).value
    /\ (/\ TeamStatsRead
        /\ \E c \in StatChains : Subscript(club_data, c).kind = "KeyError")
           => result.kind \in {"KeyError", "TypeError"}
    /\ (/\ pc = "done"
        /\ entry = "get_team_stats"
        /\ \E c \in StatChains : Subscript(club_data, c).kind = "KeyError")
           => result.kind # "record"

\* The club form is null in the source and null in the returned dict.
C13_Witness ==
    /\ TeamReturned
    /\ IsNone(club_data.form)
    /\ IsNone(TeamOut("Club Form"))
    /\ ~IsNone(TeamOut("Total Games"))

\* A sub-key of goals is absent and the call ends in a KeyError.
C13_WitnessAbsent ==
    /\ TeamStatsRead
    /\ "goals" \in DOMAIN club_data
    /\ "type" \notin DOMAIN club_data.goals
    /\ "for" \notin DOMAIN club_data.goals
    /\ result.kind = "KeyError"
    /\ result.value = "for"

\* C14: an upstream failure during the club lookup (a non-success HTTP
\* status) is surfaced to the caller as an error distinct from 'not found':
\* the call does not end in the 'No club found' result.
C14_UpstreamFailureSurfaced ==
    (/\ pc = "done"
     /\ entry = "get_team_stats"
     /\ requests = <<"teams">>
     /\ status_code # 200)
        => ~(result.kind = "message" /\ result.value = "No club found")

\* C21: in get_team_stats, when the club is found but the statistics fetch
\* yields no data (get_club_stats_from_api returns None), the call returns
\* the 'No stats found' message rather than failing.
C21_NoStatsMessage ==
    (/\ pc = "done"
     /\ entry = "get_team_stats"
     /\ requests = <<"teams", "teams/statistics">>
     /\ "type" \in DOMAIN club_data)
        => (result.kind = "message" /\ result.value = "No stats found")

\* C27: in get_team_stats, when the club lookup finds no club (get_club_id
\* returns None) the call returns the 'No club found' message and issues no
\* statistics fetch; a statistics fetch is issued only after a successful
\* league validation followed by a successful club lookup, in that order.
C27_StatsFetchAfterClubFound ==
    /\ []((/\ entry = "get_team_stats"
           /\ Len(requests) >= 1
           /\ IsNone(club_id))
             => /\ pc = "done"
                /\ result.kind = "message"
                /\ result.value = "No club found"
                /\ requests = <<"teams">>)
    /\ [](\A i \in 1..Len(requests) :
             (requests[i] = "teams/statistics") =>
                 /\ league_name \in DOMAIN LEAGUE_IDS
                 /\ i > 1
                 /\ requests[i - 1] = "teams")
    /\ [][(Len(requests') > Len(requests)
               /\ requests'[Len(requests')] = "teams/statistics")
             => /\ ~IsNone(club_id)
                /\ status_code = 200
                /\ results > 0
                /\ requests[Len(requests)] = "teams"]_vars

\* The lookup was answered with status 200 and no result: the call ended
\* with the message after its single request.
C27_Witness ==
    /\ pc = "done"
    /\ entry = "get_team_stats"
    /\ status_code = 200
    /\ results = 0
    /\ IsNone(club_id)
    /\ requests = <<"teams">>
    /\ result = Message("No club found")

\* The 36 named team statistics of the returned mapping.
NamedTeamStats ==
    {"Total Games", "Total Wins Home", "Total Wins Away", "Total Wins",
     "Total Draws Home", "Total Draws Away", "Total Draws",
     "Total Losses Home", "Total Losses Away", "Total Losses", "Club Form",
     "Total Home Goals Scored", "Total Away Goals Scored", "Total Goals Scored",
     "Average Home Goals Scored", "Average Away Goals Scored",
     "Average Goals Scored", "Total Home Goals Conceded",
     "Total Away Goals Conceded", "Total Goals Conceded",
     "Average Home Goals Conceded", "Average Away Goals Conceded",
     "Average Goals Conceded", "Longest Win Streak", "Longest Draw Streak",
     "Longest Lose Streak", "Biggest Home Win", "Biggest Away Win",
     "Biggest Home Loss", "Biggest Away Loss", "Total Home Clean Sheets",
     "Total Away Clean Sheets", "Total Clean Sheets",
     "Times Failed to Score at Home", "Times Failed to Score Away",
     "Total Times Failed to Score"}

\* A mapping with the 'Club' and 'Stats' sub-mappings complete.
HasEveryTeamKey(d) ==
    /\ {"Club", "Stats"} \subseteq DOMAIN d
    /\ {"Name", "Logo"} \subseteq DOMAIN d.Club
    /\ NamedTeamStats \cup {"Lineups"} \subseteq DOMAIN d.Stats

\* C20: every mapping returned by get_team_stats (to its caller, or into
\* the list of get_league_performance) has a 'Club' sub-mapping with Name
\* and Logo and a 'Stats' sub-mapping with each of the 36 named team
\* statistics and the 'Lineups' sub-mapping.
C20_EveryTeamStatPresent ==
    /\ Cardinality(NamedTeamStats) = 36
    /\ TeamReturned => HasEveryTeamKey(result.value)
    /\ \A i \in 1..Len(team_stats) : HasEveryTeamKey(team_stats[i])

\* A dict was returned for club data whose lineups list is empty.
C20_Witness ==
    /\ TeamReturned
    /\ Len(club_data.lineups) = 0
    /\ DOMAIN result.value.Stats = NamedTeamStats \cup {"Lineups"}
    /\ DOMAIN result.value.Stats["Lineups"] = {}
    /\ DOMAIN result.value.Club = {"Name", "Logo"}

\* get_league_performance returned a list of two team dicts.
C20_WitnessLeague ==
    /\ pc = "done"
    /\ entry = "get_league_performance"
    /\ result.kind = "list"
    /\ Len(team_stats) = 2
    /\ HasEveryTeamKey(team_stats[2])

\* The club data last fetched is a dict that lacks a key get_team_stats
\* subscripts (a case in which get_team_stats raises KeyError).
ClubDataLacksKey ==
    /\ "type" \notin DOMAIN club_data
    /\ "team" \in DOMAIN club_data
    /\ first_failure(club_data, 1) # 0

\* C29: for a valid league with a non-empty team list,
\* get_league_performance returns a list with, in API order, one entry for
\* each team whose get_team_stats result is a mapping, each carrying the
\* team's team_id and team_name; a team without a club or without
\* statistics is skipped and does not abort the call.
C29_LeagueListSkipsErrors ==
    (/\ pc = "done"
     /\ entry = "get_league_performance"
     /\ Len(teams) > 0
     /\ \A t \in 1..Len(teams) : team_missing_key(teams[t]) = ""
     /\ ~ClubDataLacksKey)
        => /\ result.kind = "list"
           /\ Len(result.value) <= Len(teams)
           /\ \A i \in 1..Len(result.value) :
                  /\ \E t \in 1..Len(teams) :
                         /\ result.value[i].team_id = teams[t].team.id
                         /\ result.value[i].team_name = teams[t].team.name
                  /\ \A j \in 1..(i - 1) :
                         result.value[j].team_id.val < result.value[i].team_id.val

-----------------------------------------------------------------------------
(* Properties of the entry points (checked under SpecCalls).               *)

LeagueEntries == {"get_player_stats", "get_team_stats", "get_league_performance"}

\* C12: when the league name is not one of the known leagues,
\* get_player_stats, get_team_stats and get_league_performance each return
\* the invalid-league error at once, and the invocation makes no request.
C12_InvalidLeagueNoRequest ==
    (entry \in LeagueEntries /\ league_name \notin DOMAIN LEAGUE_IDS) =>
        /\ pc = "done"
        /\ result.kind = "message"
        /\ result.value = "Invalid league name"
        /\ requests = <<>>
        /\ fetches = <<>>

C12_Witness ==
    /\ entry = "get_league_performance"
    /\ league_name = "Championship"
    /\ pc = "done"
    /\ result = Message("Invalid league name")
    /\ requests = <<>>

-----------------------------------------------------------------------------
(* Properties of get_players_from_api (checked under SpecPlayers).         *)

\* The page the outer call was given.
FirstPage == page - Len(frames)

\* The player lists of the pages from p to the last, one after the other.
RECURSIVE PagesFrom(_)
PagesFrom(p) ==
    IF p > Len(club_pages) THEN <<>> ELSE club_pages[p] \o PagesFrom(p + 1)

\* C22: get_players_from_api(club, season, league, page) returns the
\* concatenation, in increasing page order, of the player lists of the
\* pages from `page` to the last, also when a page after the first has an
\* empty response.
C22_AllPagesConcatenated ==
    (/\ pc = "done"
     /\ entry = "get_players_from_api"
     /\ FirstPage \in 1..Len(club_pages)
     /\ Len(club_pages[FirstPage]) > 0)
        => /\ result.kind = "list"
           /\ result.value = PagesFrom(FirstPage)

=============================================================================
